---- MODULE Spec2Model ----
(***************************************************************************)
(* Model of the condenser-coil calculator scripts:                         *)
(*   src/air_side_area_pressdrop_cond_refrig_heat_load.py      (two        *)
(*       concatenated scripts: calculate_air_side_results + the           *)
(*       "Calculate Heat Load" button, then the safe_props variant)        *)
(*   src/air_side_area_pressdrop_cond_refrig_heat_load(1).py   (the        *)
(*       "Rich" pressure-drop script with its heat-load section)           *)
(*                                                                         *)
(* Every run of a script is stateless: the widgets hold the inputs, the    *)
(* script computes and writes its outputs.  The state is therefore the     *)
(* request (widget values plus the behaviour of the external property      *)
(* provider for that request), the handler that ran and what it put on     *)
(* the page.                                                               *)
(*                                                                         *)
(* Numbers: Python floats are modelled as exact rationals <<n, d>> in      *)
(* lowest terms with d > 0.  Three pairs with d = 0 stand for the          *)
(* non-numbers a Python variable can hold here: None, NaN, and "the call   *)
(* raised".  math.pi is the rational 22/7; x ** 1.56 is tabulated.         *)
(***************************************************************************)
EXTENDS Integers, Sequences, FiniteSets, TLC

VARIABLES req, pc, ran, out

vars == <<req, pc, ran, out>>

---------------------------------------------------------------------------
(* Rational arithmetic standing for Python's float arithmetic.             *)

RECURSIVE GCD(_, _)
GCD(a, b) == IF b = 0 THEN a ELSE GCD(b, a % b)

Abs(x) == IF x < 0 THEN -x ELSE x

R(n, d) ==
  LET g == GCD(Abs(n), Abs(d))
      s == IF d < 0 THEN -1 ELSE 1
  IN  <<(s * n) \div g, (s * d) \div g>>

Int2R(n) == <<n, 1>>

None  == <<0, 0>>
NaN   == <<1, 0>>
Raise == <<-1, 0>>

IsNum(x) == x[2] > 0

RAdd(a, b) ==
  LET g == GCD(a[2], b[2])
  IN  R(a[1] * (b[2] \div g) + b[1] * (a[2] \div g), a[2] * (b[2] \div g))

RNeg(a) == <<-a[1], a[2]>>

RSub(a, b) == RAdd(a, RNeg(b))

RMul(a, b) ==
  LET g1 == GCD(Abs(a[1]), b[2])
      g2 == GCD(Abs(b[1]), a[2])
  IN  R((a[1] \div g1) * (b[1] \div g2), (a[2] \div g2) * (b[2] \div g1))

\* a / b for b # 0; every caller models the ZeroDivisionError itself
RDiv(a, b) == RMul(a, IF b[1] < 0 THEN <<-b[2], -b[1]>> ELSE <<b[2], b[1]>>)

RLt(a, b) == RSub(a, b)[1] < 0

RLe(a, b) == RSub(a, b)[1] <= 0

RIsZero(a) == a[1] = 0

RPos(a) == a[1] > 0

\* math.floor
RFloor(a) == a[1] \div a[2]

\* Python's max(a, b) and min(a, b): the first argument unless the second
\* is strictly greater (smaller)
PyMax(a, b) == IF RLt(a, b) THEN b ELSE a

PyMin(a, b) == IF RLt(b, a) THEN b ELSE a

---------------------------------------------------------------------------
(* air_properties_lookup: the fallback table.                              *)

T_table == <<Int2R(0), Int2R(10), Int2R(20), Int2R(30), Int2R(40), Int2R(50), Int2R(60)>>

mu_table == <<R(171, 10000000), R(175, 10000000), R(181, 10000000), R(187, 10000000),
              R(192, 10000000), R(198, 10000000), R(203, 10000000)>>

rho_table == <<R(1293, 1000), R(1247, 1000), R(1204, 1000), R(1165, 1000),
               R(1127, 1000), R(1093, 1000), R(1060, 1000)>>

\* the clamp with its lower limit left out
ClampT_upper_only(T_C) == PyMin(Int2R(60), T_C)

\* T_C = max(0, min(60, T_C))
ClampT(T_C) == PyMax(Int2R(0), PyMin(Int2R(60), T_C))

\* frac = (T_C - T_table[i]) / (T_table[i+1] - T_table[i]);  lo + frac * (hi - lo)
Interp(T, i, table) ==
  LET frac == RDiv(RSub(T, T_table[i]), RSub(T_table[i + 1], T_table[i]))
  IN  RAdd(table[i], RMul(frac, RSub(table[i + 1], table[i])))

\* the loop "for i in range(len(T_table)-1)": the first bracket that holds
\* returns; ret records which return statement was taken
air_properties_lookup(T_C0) ==
  LET T_C  == ClampT(T_C0)
      hits == {i \in 1..(Len(T_table) - 1) :
                 RLe(T_table[i], T_C) /\ RLe(T_C, T_table[i + 1])}
  IN  IF hits # {}
      THEN LET i == CHOOSE j \in hits : \A k \in hits : j <= k
           IN  [rho |-> Interp(T_C, i, rho_table),
                mu  |-> Interp(T_C, i, mu_table),
                ret |-> "loop"]
      ELSE [rho |-> rho_table[Len(rho_table)],
            mu  |-> mu_table[Len(mu_table)],
            ret |-> "tail"]

---------------------------------------------------------------------------
(* The external property provider (CoolProp's PropsSI) for refrigerants.   *)
(* A request fixes which lookups raise (req.fails); a lookup that does     *)
(* not raise returns the value of a fixed property table.  A lookup is     *)
(* named by <<output, input name, input value>>; the pressure and the      *)
(* fluid are the same for every lookup of one request.                     *)

KelvinOffset == R(27315, 100)

Celsius(t) == RAdd(Int2R(t), KelvinOffset)

Fluids == {"R134a", "R407C"}

\* bubble and dew temperature: equal for the pure fluid, a glide for the blend
ProviderT(Q, fluid) ==
  IF Q = Int2R(0) THEN Celsius(80)
  ELSE IF fluid = "R407C" THEN Celsius(85) ELSE Celsius(80)

\* saturated liquid / saturated vapour enthalpy, J/kg
ProviderHQ(Q) == IF Q = Int2R(0) THEN Int2R(270000) ELSE Int2R(420000)

\* single-phase enthalpy at temperature T: vapour above 80 C, liquid below
ProviderHT(T) ==
  IF RLt(Celsius(80), T)
  THEN RAdd(Int2R(420000), RMul(Int2R(1000), RSub(T, Celsius(80))))
  ELSE RSub(Int2R(270000), RMul(Int2R(1500), RSub(Celsius(80), T)))

PropsSI(fails, o, P, n, v, fluid) ==
  IF <<o, n, v>> \in fails THEN Raise
  ELSE IF o = "T" THEN ProviderT(v, fluid)
  ELSE IF n = "Q" THEN ProviderHQ(v)
  ELSE ProviderHT(v)

---------------------------------------------------------------------------
(* What a script puts on the page.                                         *)

\* f"{x:.2f}": x rounded to two decimals, ties to even
Fmt2(x) ==
  LET c == RMul(x, Int2R(100))
      q == RFloor(c)
      r == RSub(c, Int2R(q))
      h == R(1, 2)
      n == IF RLt(r, h) THEN q
           ELSE IF RLt(h, r) THEN q + 1
           ELSE IF q % 2 = 0 THEN q ELSE q + 1
  IN  R(n, 100)

NoResult == [T_sat |-> None, h1 |-> None, h2 |-> None, h3 |-> None, h4 |-> None,
             Q_sensible |-> None, Q_latent |-> None, Q_subcool |-> None,
             Q_total |-> None]

\* except Exception as e: st.error(f"Calculation error: {e}")
HeatLoadError(msg, calls) ==
  [err |-> <<msg>>, warn |-> <<>>, writes |-> <<>>, calls |-> calls, val |-> NoResult]

\* the lookups of a try block in program order: the first one that raises
\* ends the block
RECURSIVE UpToRaise(_, _)
UpToRaise(fails, keys) ==
  IF keys = <<>> THEN <<>>
  ELSE IF Head(keys) \in fails THEN <<Head(keys)>>
  ELSE <<Head(keys)>> \o UpToRaise(fails, Tail(keys))

Q0 == Int2R(0)

Q1 == Int2R(1)

\* the inlet is superheated vapour: "T1 > T_sat"
SuperheatedOrSaturated(T1, T_sat) == RLe(T_sat, T1)

Superheated(T1, T_sat) == RLt(T_sat, T1)

\* the outlet is subcooled liquid: "T3 < T_sat"
Subcooled(T3, T_sat) == RLt(T3, T_sat)

\* Q = m_dot * (ha - hb) / 1000
Duty(m_dot, ha, hb) == RDiv(RMul(m_dot, RSub(ha, hb)), Int2R(1000))

---------------------------------------------------------------------------
(* Refrigerant heat load, variant 1: the heat-load section of the Rich     *)
(* script, ...(1).py lines 88-122.                                         *)

RichHeatLoad(in) ==
  LET fails  == in.fails
      fluid  == in.fluid
      m_dot  == in.m_dot
      P_cond == RMul(in.P_cond_bar, Int2R(100000))
      T1     == RAdd(in.T_superheat, KelvinOffset)
      T3     == RAdd(in.T_subcool, KelvinOffset)
      T_sat  == PropsSI(fails, "T", P_cond, "Q", Q0, fluid)
      h1     == IF Superheated(T1, T_sat) THEN PropsSI(fails, "H", P_cond, "T", T1, fluid)
                ELSE PropsSI(fails, "H", P_cond, "Q", Q1, fluid)
      h2     == PropsSI(fails, "H", P_cond, "Q", Q1, fluid)
      h3     == PropsSI(fails, "H", P_cond, "Q", Q0, fluid)
      h4     == IF Subcooled(T3, T_sat) THEN PropsSI(fails, "H", P_cond, "T", T3, fluid)
                ELSE h3
      keys   == <<<<"T", "Q", Q0>>>> \o
                (IF T_sat = Raise THEN <<>>
                 ELSE <<IF Superheated(T1, T_sat) THEN <<"H", "T", T1>> ELSE <<"H", "Q", Q1>>,
                        <<"H", "Q", Q1>>, <<"H", "Q", Q0>>>> \o
                      (IF Subcooled(T3, T_sat) THEN <<<<"H", "T", T3>>>> ELSE <<>>))
      q_sensible == RSub(h1, h2)
      q_latent   == RSub(h2, h3)
      q_subcool  == RSub(h3, h4)
      Q_sensible == RDiv(RMul(m_dot, q_sensible), Int2R(1000))
      Q_latent   == RDiv(RMul(m_dot, q_latent), Int2R(1000))
      Q_subcool  == RDiv(RMul(m_dot, q_subcool), Int2R(1000))
      Q_total    == RAdd(RAdd(Q_sensible, Q_latent), Q_subcool)
  IN  IF T_sat = Raise \/ h1 = Raise \/ h2 = Raise \/ h3 = Raise \/ h4 = Raise
      THEN HeatLoadError("Calculation error: PropsSI", UpToRaise(fails, keys))
      ELSE [err    |-> <<>>,
            warn   |-> IF RLe(T_sat, T3)
                       THEN <<"Subcooling temperature is higher than or equal to bubble point. No subcooling occurs.">>
                       ELSE <<>>,
            writes |-> << <<"Saturation Temp (C)", Fmt2(RSub(T_sat, KelvinOffset))>>,
                          <<"h1 (Inlet Superheated)", Fmt2(h1)>>,
                          <<"h2 (Saturated Vapor)", Fmt2(h2)>>,
                          <<"h3 (Saturated Liquid)", Fmt2(h3)>>,
                          <<"h4 (Subcooled Liquid)", Fmt2(h4)>>,
                          <<"Sensible Cooling", Fmt2(Q_sensible)>>,
                          <<"Latent Condensation", Fmt2(Q_latent)>>,
                          <<"Subcooling", Fmt2(Q_subcool)>>,
                          <<"Total Heat Removed", Fmt2(Q_total)>> >>,
            calls  |-> UpToRaise(fails, keys),
            val    |-> [T_sat |-> T_sat, h1 |-> h1, h2 |-> h2, h3 |-> h3, h4 |-> h4,
                        Q_sensible |-> Q_sensible, Q_latent |-> Q_latent,
                        Q_subcool |-> Q_subcool, Q_total |-> Q_total]]

(* Variant 2: the "Calculate Heat Load" button of the first script of      *)
(* ....py, lines 127-147.                                                  *)

ButtonHeatLoad(in) ==
  LET fails  == in.fails
      fluid  == in.fluid
      m_dot_ref == in.m_dot
      P_cond == RMul(in.P_cond_bar, Int2R(100000))
      T1     == RAdd(in.T_superheat, KelvinOffset)
      T3     == RAdd(in.T_subcool, KelvinOffset)
      T_sat  == PropsSI(fails, "T", P_cond, "Q", Q0, fluid)
      h1     == IF Superheated(T1, T_sat) THEN PropsSI(fails, "H", P_cond, "T", T1, fluid)
                ELSE PropsSI(fails, "H", P_cond, "Q", Q1, fluid)
      h2     == PropsSI(fails, "H", P_cond, "Q", Q1, fluid)
      h3     == PropsSI(fails, "H", P_cond, "Q", Q0, fluid)
      h4     == IF Subcooled(T3, T_sat) THEN PropsSI(fails, "H", P_cond, "T", T3, fluid)
                ELSE h3
      keys   == <<<<"T", "Q", Q0>>>> \o
                (IF T_sat = Raise THEN <<>>
                 ELSE <<IF Superheated(T1, T_sat) THEN <<"H", "T", T1>> ELSE <<"H", "Q", Q1>>,
                        <<"H", "Q", Q1>>, <<"H", "Q", Q0>>>> \o
                      (IF Subcooled(T3, T_sat) THEN <<<<"H", "T", T3>>>> ELSE <<>>))
      Q_sensible == Duty(m_dot_ref, h1, h2)
      Q_latent   == Duty(m_dot_ref, h2, h3)
      Q_subcool  == Duty(m_dot_ref, h3, h4)
      Q_total    == RAdd(RAdd(Q_sensible, Q_latent), Q_subcool)
  IN  IF T_sat = Raise \/ h1 = Raise \/ h2 = Raise \/ h3 = Raise \/ h4 = Raise
      THEN HeatLoadError("Calculation error: PropsSI", UpToRaise(fails, keys))
      ELSE [err    |-> <<>>,
            warn   |-> <<>>,
            writes |-> << <<"Desuperheating", Fmt2(Q_sensible)>>,
                          <<"Condensing", Fmt2(Q_latent)>>,
                          <<"Subcooling", Fmt2(Q_subcool)>>,
                          <<"Total Heat Removed", Fmt2(Q_total)>> >>,
            calls  |-> UpToRaise(fails, keys),
            val    |-> [T_sat |-> T_sat, h1 |-> h1, h2 |-> h2, h3 |-> h3, h4 |-> h4,
                        Q_sensible |-> Q_sensible, Q_latent |-> Q_latent,
                        Q_subcool |-> Q_subcool, Q_total |-> Q_total]]

(* Variant 3: the second script of ....py, lines 173-223.                  *)

\* safe_props with the failure masked as a zero enthalpy
safe_props_zero(fails, fluid, P, T, Q) ==
  LET v == IF T # None THEN PropsSI(fails, "H", P, "T", T, fluid)
           ELSE IF Q # None THEN PropsSI(fails, "H", P, "Q", Q, fluid)
           ELSE None
  IN  IF v = Raise THEN Int2R(0) ELSE v

\* try: PropsSI by T if T is given, else by Q if Q is given; except: None
safe_props(fails, fluid, P, T, Q) ==
  LET v == IF T # None THEN PropsSI(fails, "H", P, "T", T, fluid)
           ELSE IF Q # None THEN PropsSI(fails, "H", P, "Q", Q, fluid)
           ELSE None
  IN  IF v = Raise THEN None ELSE v

\* Python truth value of a float-or-None
Truthy(x) == x # None /\ ~RIsZero(x)

SafeHeatLoad(in) ==
  LET fails  == in.fails
      fluid  == in.fluid
      m_dot_ref == in.m_dot
      P_cond == RMul(in.P_cond_bar, Int2R(100000))
      T1     == RAdd(in.T_superheat, KelvinOffset)
      T3     == RAdd(in.T_subcool, KelvinOffset)
      \* try: T_bubble = ...; T_dew = ...  except: pass
      bub    == PropsSI(fails, "T", P_cond, "Q", Q0, fluid)
      dew    == PropsSI(fails, "T", P_cond, "Q", Q1, fluid)
      T_bubble == IF bub = Raise THEN None ELSE bub
      T_dew    == IF bub = Raise \/ dew = Raise THEN None ELSE dew
      sup    == Truthy(T_bubble) /\ Superheated(T1, T_bubble)
      sub    == Truthy(T_bubble) /\ Subcooled(T3, T_bubble)
      h1     == IF sup THEN safe_props(fails, fluid, P_cond, T1, None)
                ELSE safe_props(fails, fluid, P_cond, None, Q1)
      h2     == safe_props(fails, fluid, P_cond, None, Q1)
      h3     == safe_props(fails, fluid, P_cond, None, Q0)
      h4     == IF sub THEN safe_props(fails, fluid, P_cond, T3, None) ELSE h3
      calls  == <<<<"T", "Q", Q0>>>> \o
                (IF bub = Raise THEN <<>> ELSE <<<<"T", "Q", Q1>>>>) \o
                <<IF sup THEN <<"H", "T", T1>> ELSE <<"H", "Q", Q1>>,
                  <<"H", "Q", Q1>>, <<"H", "Q", Q0>>>> \o
                (IF sub THEN <<<<"H", "T", T3>>>> ELSE <<>>)
      Q_sensible == Duty(m_dot_ref, h1, h2)
      Q_latent   == Duty(m_dot_ref, h2, h3)
      Q_subcool  == Duty(m_dot_ref, h3, h4)
      Q_total    == RAdd(RAdd(Q_sensible, Q_latent), Q_subcool)
  IN  IF None \in {h1, h2, h3, h4}
      THEN HeatLoadError("Calculation error: One or more enthalpy values could not be retrieved for the selected fluid.",
                         calls)
      ELSE [err    |-> <<>>,
            warn   |-> <<>>,
            writes |-> << <<"Desuperheating", Fmt2(Q_sensible)>>,
                          <<"Condensing", Fmt2(Q_latent)>>,
                          <<"Subcooling", Fmt2(Q_subcool)>>,
                          <<"Total Heat Removed", Fmt2(Q_total)>> >>,
            calls  |-> calls,
            val    |-> [T_sat |-> T_bubble, h1 |-> h1, h2 |-> h2, h3 |-> h3, h4 |-> h4,
                        Q_sensible |-> Q_sensible, Q_latent |-> Q_latent,
                        Q_subcool |-> Q_subcool, Q_total |-> Q_total]]

---------------------------------------------------------------------------
(* Air side: calculate_air_side_results of ....py, lines 24-91.            *)

\* math.pi, as the rational 22/7
Pi == R(22, 7)

\* fins per metre for one fin per inch
FinsPerInchToPerM == R(393701, 10000)

\* the friction factor f = 0.03
FrictionFactor == R(3, 100)

\* PropsSI(o, 'T', T_K, 'P', 101325, 'Air'): what the provider does for air
\* is fixed by the request (mode)
AirPropsSI(mode, o) ==
  IF mode = "raises" THEN Raise
  ELSE IF o = "D" THEN R(23, 20)
  ELSE IF mode = "mu_zero" THEN Int2R(0)
  ELSE IF mode = "mu_negative" THEN R(-19, 1000000)
  ELSE IF mode = "mu_nan" THEN NaN
  ELSE R(19, 1000000)

AirFields == {"tubes_per_row", "total_tubes", "fin_depth_m", "tube_ext_area",
              "net_fin_area", "total_air_side_area", "free_flow_area",
              "free_flow_percent", "face_velocity", "u_max", "tube_pitch_m",
              "tube_od_m", "rho", "mu", "D_h", "m_dot", "G", "Re", "f", "dP"}

\* an exception leaves calculate_air_side_results: nothing is returned
AirFault(exc, line) ==
  [fault |-> exc, line |-> line, source |-> "none",
   res |-> [k \in AirFields |-> None]]

\* "mu <= 0 or math.isnan(mu)"
BadViscosity(mu) == (IsNum(mu) /\ mu[1] <= 0) \/ mu = NaN

calculate_air_side_results(in) ==
  LET tube_od_m       == RDiv(in.tube_od_mm, Int2R(1000))
      tube_pitch_m    == RDiv(in.tube_pitch_mm, Int2R(1000))
      row_pitch_m     == RDiv(in.row_pitch_mm, Int2R(1000))
      fin_thickness_m == RDiv(in.fin_thickness_mm, Int2R(1000))
      fins_per_m      == RMul(in.fpi, FinsPerInchToPerM)
      fin_spacing_m   == RDiv(Int2R(1), fins_per_m)
      frontal_area_m2 == RMul(in.face_width_m, in.face_height_m)
      fin_depth_m     == RMul(Int2R(in.num_rows), row_pitch_m)
      tubes_per_row   == RFloor(RDiv(in.face_width_m, tube_pitch_m))
      total_tubes     == tubes_per_row * in.num_rows
      tube_ext_area   == RMul(Int2R(total_tubes), RMul(Pi, tube_od_m))
      fin_area_per_fin     == RMul(RMul(Int2R(2), in.face_width_m), fin_depth_m)
      total_gross_fin_area == RMul(fin_area_per_fin, fins_per_m)
      hole_area_per_tube   == RMul(RDiv(Pi, Int2R(4)), RMul(tube_od_m, tube_od_m))
      total_hole_area      == RMul(RMul(hole_area_per_tube, Int2R(total_tubes)), fins_per_m)
      net_fin_area         == RSub(total_gross_fin_area, total_hole_area)
      total_air_side_area  == RMul(RAdd(tube_ext_area, net_fin_area), in.face_height_m)
      face_velocity   == RDiv(RDiv(in.air_flow_cmh, Int2R(3600)), frontal_area_m2)
      \* lines 44-51
      rho0     == AirPropsSI(in.air_mode, "D")
      mu0      == AirPropsSI(in.air_mode, "V")
      fallback == ~in.coolprop_available \/ BadViscosity(mu0)
      table    == air_properties_lookup(in.air_temp_C)
      rho      == IF fallback THEN table.rho ELSE rho0
      mu       == IF fallback THEN table.mu ELSE mu0
      air_flow_m3s   == RDiv(in.air_flow_cmh, Int2R(3600))
      m_dot          == RMul(rho, air_flow_m3s)
      free_flow_area == RMul(frontal_area_m2, RDiv(in.free_flow_percent, Int2R(100)))
      G     == RDiv(m_dot, free_flow_area)
      u_max == IF RPos(RSub(tube_pitch_m, tube_od_m))
               THEN RDiv(RMul(face_velocity, tube_pitch_m), RSub(tube_pitch_m, tube_od_m))
               ELSE Int2R(0)
      Re    == IF RPos(mu) THEN RDiv(RMul(RMul(rho, u_max), tube_od_m), mu) ELSE Int2R(0)
      passage_height == RSub(tube_pitch_m, tube_od_m)
      passage_width  == RSub(fin_spacing_m, fin_thickness_m)
      A_min_cell     == RMul(passage_height, passage_width)
      P_wet_cell     == RMul(Int2R(2), RAdd(passage_height, passage_width))
      D_h   == IF RPos(P_wet_cell) THEN RDiv(RMul(Int2R(4), A_min_cell), P_wet_cell)
               ELSE Int2R(0)
      f     == FrictionFactor
      flow_depth == RMul(Int2R(in.num_rows), row_pitch_m)
      dP    == IF RPos(D_h)
               THEN RDiv(RMul(RMul(f, RDiv(flow_depth, D_h)), RMul(G, G)),
                         RMul(Int2R(2), rho))
               ELSE Int2R(0)
  IN  IF RIsZero(fins_per_m) THEN AirFault("ZeroDivisionError", 30)
      ELSE IF RIsZero(tube_pitch_m) THEN AirFault("ZeroDivisionError", 33)
      ELSE IF RIsZero(frontal_area_m2) THEN AirFault("ZeroDivisionError", 42)
      ELSE IF in.coolprop_available /\ (rho0 = Raise \/ mu0 = Raise)
           THEN AirFault("ValueError", 46)
      ELSE IF RIsZero(free_flow_area) THEN AirFault("ZeroDivisionError", 56)
      ELSE [fault  |-> "none",
            line   |-> 0,
            source |-> IF fallback THEN "table" ELSE "provider",
            res    |-> [tubes_per_row       |-> Int2R(tubes_per_row),
                        total_tubes         |-> Int2R(total_tubes),
                        fin_depth_m         |-> fin_depth_m,
                        tube_ext_area       |-> tube_ext_area,
                        net_fin_area        |-> net_fin_area,
                        total_air_side_area |-> total_air_side_area,
                        free_flow_area      |-> free_flow_area,
                        free_flow_percent   |-> in.free_flow_percent,
                        face_velocity       |-> face_velocity,
                        u_max               |-> u_max,
                        tube_pitch_m        |-> tube_pitch_m,
                        tube_od_m           |-> tube_od_m,
                        rho                 |-> rho,
                        mu                  |-> mu,
                        D_h                 |-> D_h,
                        m_dot               |-> m_dot,
                        G                   |-> G,
                        Re                  |-> Re,
                        f                   |-> f,
                        dP                  |-> dP]]

---------------------------------------------------------------------------
(* Air side of the Rich script: ...(1).py lines 27-72.                     *)

\* f"{x:.4f}": x rounded to four decimals, ties to even
Fmt4(x) ==
  LET c == RMul(x, Int2R(10000))
      q == RFloor(c)
      r == RSub(c, Int2R(q))
      h == R(1, 2)
      n == IF RLt(r, h) THEN q
           ELSE IF RLt(h, r) THEN q + 1
           ELSE IF q % 2 = 0 THEN q ELSE q + 1
  IN  R(n, 10000)

\* a_lookup = {8: 7.15, 10: 8.5, 12: 9.63, 13.5: 11.0}, in insertion order
a_lookup_keys == <<Int2R(8), Int2R(10), Int2R(12), R(27, 2)>>

a_lookup_vals == <<R(715, 100), R(85, 10), R(963, 100), Int2R(11)>>

RAbs(a) == <<Abs(a[1]), a[2]>>

\* the key with abs() left out
FpiDistance_signed(x, fpi) == RSub(x, fpi)

\* key=lambda x: abs(x - fpi)
FpiDistance(x, fpi) == RAbs(RSub(x, fpi))

\* min(a_lookup.keys(), key=...): the index of the first key whose distance
\* no other key undercuts (Python's min keeps the earliest minimum)
RECURSIVE MinScan(_, _, _)
MinScan(fpi, best, i) ==
  IF i > Len(a_lookup_keys) THEN best
  ELSE IF RLt(FpiDistance(a_lookup_keys[i], fpi), FpiDistance(a_lookup_keys[best], fpi))
       THEN MinScan(fpi, i, i + 1)
       ELSE MinScan(fpi, best, i + 1)

closest_fpi(fpi) == MinScan(fpi, 1, 2)

\* x ** 1.56, to three decimals, for the air velocities the requests produce
Pow156(x) ==
  CASE x = Int2R(0)  -> Int2R(0)
    [] x = Int2R(1)  -> Int2R(1)
    [] x = Int2R(4)  -> R(8694, 1000)
    [] x = R(35, 4)  -> R(29480, 1000)
    [] x = Int2R(35) -> R(256299, 1000)

RichFields == {"tubes_per_row", "total_tubes", "tube_ext_area", "net_fin_area",
               "total_air_side_area", "net_free_flow_area", "air_velocity_ms",
               "closest_fpi", "a_value", "dp_per_row", "dp_total"}

\* an uncaught exception ends the script run: nothing is written
RichFault(exc, line) ==
  [fault |-> exc, line |-> line, writes |-> <<>>,
   res |-> [k \in RichFields |-> None]]

RichAirSide(in) ==
  LET tube_od_m       == RDiv(in.tube_od_mm, Int2R(1000))
      tube_pitch_m    == RDiv(in.tube_pitch_mm, Int2R(1000))
      row_pitch_m     == RDiv(in.row_pitch_mm, Int2R(1000))
      fin_thickness_m == RDiv(in.fin_thickness_mm, Int2R(1000))
      fins_per_m      == RMul(in.fpi, FinsPerInchToPerM)
      frontal_area_m2 == RMul(in.face_width_m, in.face_height_m)
      fin_depth_m     == RMul(Int2R(in.num_rows), row_pitch_m)
      tubes_per_row   == RFloor(RDiv(in.face_width_m, tube_pitch_m))
      total_tubes     == tubes_per_row * in.num_rows
      tube_ext_area   == RMul(Int2R(total_tubes), RMul(Pi, tube_od_m))
      fin_area_per_fin     == RMul(RMul(Int2R(2), in.face_width_m), fin_depth_m)
      total_gross_fin_area == RMul(fin_area_per_fin, fins_per_m)
      hole_area_per_tube   == RMul(RDiv(Pi, Int2R(4)), RMul(tube_od_m, tube_od_m))
      total_hole_area      == RMul(RMul(hole_area_per_tube, Int2R(total_tubes)), fins_per_m)
      net_fin_area         == RSub(total_gross_fin_area, total_hole_area)
      total_air_side_area  == RMul(RAdd(tube_ext_area, net_fin_area), in.face_height_m)
      net_free_flow_area   == RMul(frontal_area_m2, RDiv(in.free_area_percent, Int2R(100)))
      air_flow_m3s    == RDiv(in.air_flow_cmh, Int2R(3600))
      air_velocity_ms == IF RPos(net_free_flow_area)
                         THEN RDiv(air_flow_m3s, net_free_flow_area)
                         ELSE Int2R(0)
      closest    == closest_fpi(in.fpi)
      a_value    == a_lookup_vals[closest]
      dp_per_row == RMul(a_value, Pow156(air_velocity_ms))
      dp_total   == RMul(dp_per_row, Int2R(in.num_rows))
  IN  IF RIsZero(tube_pitch_m) THEN RichFault("ZeroDivisionError", 35)
      ELSE [fault  |-> "none",
            line   |-> 0,
            writes |-> << <<"Tubes per Row", Int2R(tubes_per_row)>>,
                          <<"Total Tubes", Int2R(total_tubes)>>,
                          <<"Tube External Area", Fmt4(tube_ext_area)>>,
                          <<"Net Fin Area", Fmt4(net_fin_area)>>,
                          <<"Total Air-Side Area", Fmt4(total_air_side_area)>>,
                          <<"Free Flow Area A_min", Fmt4(net_free_flow_area)>>,
                          <<"Air Velocity", Fmt2(air_velocity_ms)>>,
                          <<"Pressure Drop per Row", Fmt2(dp_per_row)>>,
                          <<"Total Air-side Pressure Drop", Fmt2(dp_total)>> >>,
            res    |-> [tubes_per_row       |-> Int2R(tubes_per_row),
                        total_tubes         |-> Int2R(total_tubes),
                        tube_ext_area       |-> tube_ext_area,
                        net_fin_area        |-> net_fin_area,
                        total_air_side_area |-> total_air_side_area,
                        net_free_flow_area  |-> net_free_flow_area,
                        air_velocity_ms     |-> air_velocity_ms,
                        closest_fpi         |-> a_lookup_keys[closest],
                        a_value             |-> a_value,
                        dp_per_row          |-> dp_per_row,
                        dp_total            |-> dp_total]]

---------------------------------------------------------------------------
(* Requests.                                                               *)

\* the lookups a heat-load request can make
HeatLoadKeys(T_superheat, T_subcool) ==
  {<<"T", "Q", Q0>>, <<"T", "Q", Q1>>, <<"H", "Q", Q0>>, <<"H", "Q", Q1>>,
   <<"H", "T", RAdd(T_superheat, KelvinOffset)>>,
   <<"H", "T", RAdd(T_subcool, KelvinOffset)>>}

InletTemps == {Int2R(70), Int2R(80), Int2R(95)}

OutletTemps == {R(527, 10), Int2R(80), Int2R(90)}

MassFlows == {R(599, 1000), Int2R(2)}

Blank == [err |-> <<>>, warn |-> <<>>, writes |-> <<>>]

InitHeatLoad ==
  \E fluid \in Fluids, Tin \in InletTemps, Tout \in OutletTemps, m \in MassFlows :
    \E fails \in SUBSET HeatLoadKeys(Tin, Tout) :
      req = [kind |-> "heatload", fluid |-> fluid, P_cond_bar |-> R(2352, 100),
             T_superheat |-> Tin, T_subcool |-> Tout, m_dot |-> m, fails |-> fails]

MaxRows == 2

TubeODs == {Int2R(20), Int2R(40)}

TubePitches == {Int2R(0), Int2R(25)}

RowPitches == {Int2R(20)}

FinThicknesses == {R(12, 100)}

\* 0, and 500 fins per metre (a 2 mm fin pitch) expressed in fins per inch
FinDensities == {Int2R(0), R(5000000, 393701)}

FaceWidths == {R(1, 50), Int2R(1)}

FaceHeights == {Int2R(0), Int2R(1)}

AirFlows == {Int2R(0), Int2R(3600)}

AirTemps == {Int2R(35), Int2R(70)}

FreeFlowPercents == {Int2R(25), Int2R(100)}

AirModes == {"ok", "raises", "mu_zero", "mu_negative", "mu_nan"}

InitAirSide ==
  \E od \in TubeODs, tp \in TubePitches, rp \in RowPitches, ft \in FinThicknesses,
     fd \in FinDensities, n \in 1..MaxRows, fw \in FaceWidths, fh \in FaceHeights,
     q \in AirFlows, t \in AirTemps, pct \in FreeFlowPercents,
     cp \in BOOLEAN, mode \in AirModes :
    /\ (~cp => mode = "ok")
    /\ req = [kind |-> "airside", tube_od_mm |-> od, tube_pitch_mm |-> tp,
              row_pitch_mm |-> rp, fin_thickness_mm |-> ft, fpi |-> fd,
              num_rows |-> n, face_width_m |-> fw, face_height_m |-> fh,
              air_flow_cmh |-> q, air_temp_C |-> t, free_flow_percent |-> pct,
              coolprop_available |-> cp, air_mode |-> mode]

RichFinDensities == {Int2R(0), Int2R(8), Int2R(9), Int2R(10), Int2R(11), Int2R(12),
                     Int2R(13), R(27, 2), Int2R(20)}

RichFaceWidths == {R(1, 50), R(7, 40)}

RichAirFlows == {Int2R(0), Int2R(630)}

InitRich ==
  \E od \in TubeODs, tp \in TubePitches, rp \in RowPitches, ft \in FinThicknesses,
     fd \in RichFinDensities, n \in 1..MaxRows, fw \in RichFaceWidths,
     fh \in FaceHeights, q \in RichAirFlows, pct \in FreeFlowPercents :
    req = [kind |-> "rich", tube_od_mm |-> od, tube_pitch_mm |-> tp,
           row_pitch_mm |-> rp, fin_thickness_mm |-> ft, fpi |-> fd,
           num_rows |-> n, face_width_m |-> fw, face_height_m |-> fh,
           air_flow_cmh |-> q, free_area_percent |-> pct]

\* temperatures from LookupMargin below the table to LookupMargin above it,
\* in half-degree steps
LookupMargin == 5

LookupTemps == {R(k, 2) : k \in (-2 * LookupMargin)..(2 * (60 + LookupMargin))}

InitLookup ==
  \E t \in LookupTemps : req = [kind |-> "lookup", T_C |-> t]

Init ==
  /\ pc = "ready"
  /\ ran = "none"
  /\ out = Blank
  /\ (InitHeatLoad \/ InitAirSide \/ InitRich \/ InitLookup)

RunCalculateAirSide ==
  /\ pc = "ready" /\ req.kind = "airside"
  /\ out' = calculate_air_side_results(req)
  /\ ran' = "calculate_air_side_results"
  /\ pc' = "done"
  /\ UNCHANGED req

RunRichHeatLoad ==
  /\ pc = "ready" /\ req.kind = "heatload"
  /\ out' = RichHeatLoad(req)
  /\ ran' = "RichHeatLoad"
  /\ pc' = "done"
  /\ UNCHANGED req

RunButtonHeatLoad ==
  /\ pc = "ready" /\ req.kind = "heatload"
  /\ out' = ButtonHeatLoad(req)
  /\ ran' = "ButtonHeatLoad"
  /\ pc' = "done"
  /\ UNCHANGED req

RunSafeHeatLoad ==
  /\ pc = "ready" /\ req.kind = "heatload"
  /\ out' = SafeHeatLoad(req)
  /\ ran' = "SafeHeatLoad"
  /\ pc' = "done"
  /\ UNCHANGED req

RunRichAirSide ==
  /\ pc = "ready" /\ req.kind = "rich"
  /\ out' = RichAirSide(req)
  /\ ran' = "RichAirSide"
  /\ pc' = "done"
  /\ UNCHANGED req

RunAirPropertiesLookup ==
  /\ pc = "ready" /\ req.kind = "lookup"
  /\ out' = air_properties_lookup(req.T_C)
  /\ ran' = "air_properties_lookup"
  /\ pc' = "done"
  /\ UNCHANGED req

Next ==
  \/ RunRichHeatLoad
  \/ RunButtonHeatLoad
  \/ RunSafeHeatLoad
  \/ RunCalculateAirSide
  \/ RunRichAirSide
  \/ RunAirPropertiesLookup

Spec == Init /\ [][Next]_vars

---------------------------------------------------------------------------
(* Properties.                                                             *)

Done(handler) == pc = "done" /\ ran = handler

HeatLoadRan == pc = "done" /\ ran \in {"RichHeatLoad", "ButtonHeatLoad", "SafeHeatLoad"}

AirSideRan == pc = "done" /\ ran \in {"calculate_air_side_results", "RichAirSide"}

TsatKey == <<"T", "Q", Q0>>

WrittenLabels == {out.writes[i][1] : i \in DOMAIN out.writes}

AllDuties == {"desuperheat", "condensing", "subcool", "total"}

DutyLabels(d) ==
  IF d = "desuperheat" THEN {"Sensible Cooling", "Desuperheating"}
  ELSE IF d = "condensing" THEN {"Latent Condensation", "Condensing"}
  ELSE IF d = "subcool" THEN {"Subcooling"}
  ELSE {"Total Heat Removed"}

DutiesReported == {d \in AllDuties : DutyLabels(d) \cap WrittenLabels # {}}

\* a lookup the invocation made for an enthalpy raised
EnthalpyLookupFailed ==
  \E i \in DOMAIN out.calls : out.calls[i][1] = "H" /\ out.calls[i] \in req.fails

\* no lookup the invocation made raised
AllLookupsSucceeded == \A i \in DOMAIN out.calls : out.calls[i] \notin req.fails

ReqT1 == RAdd(req.T_superheat, KelvinOffset)

ReqT3 == RAdd(req.T_subcool, KelvinOffset)

ReqTsat == ProviderT(Q0, req.fluid)

\* C1: in every variant a failed lookup of T_sat (quality 0) ends the
\* invocation in an error and no duty is reported.
C1_TsatFailureIsAnError ==
  (HeatLoadRan /\ TsatKey \in req.fails)
    => (Len(out.err) >= 1 /\ DutiesReported = {})

\* C2: an invocation whose enthalpy lookup failed reports exactly one error
\* and no duty; one with T_sat resolved and no failed enthalpy lookup reports
\* all four duties and no error; never an error together with a duty, never
\* only some of the duties.
C2_AllDutiesOrOneError ==
  HeatLoadRan =>
    /\ EnthalpyLookupFailed => (Len(out.err) = 1 /\ DutiesReported = {})
    /\ (~EnthalpyLookupFailed /\ TsatKey \notin req.fails)
         => (out.err = <<>> /\ DutiesReported = AllDuties)
    /\ ~(out.err # <<>> /\ DutiesReported # {})
    /\ DutiesReported \in {{}, AllDuties}

C2_Witness ==
  /\ Done("SafeHeatLoad")
  /\ TsatKey \notin req.fails
  /\ <<"H", "Q", Q0>> \in req.fails
  /\ Len(out.err) = 1
  /\ out.writes = <<>>

\* C3: in every variant, with all lookups succeeding: an outlet temperature
\* at or above T_sat gives h4 = h3, a zero subcool duty, total = desuperheat
\* + condensing, a reported result and a "no subcooling" warning; an outlet
\* temperature below T_sat gives h4 = the enthalpy at (P, T3) and no warning.
C3_NoSubcoolingIsWarned ==
  (HeatLoadRan /\ AllLookupsSucceeded) =>
    IF RLe(ReqTsat, ReqT3)
    THEN /\ out.val.h4 = out.val.h3
         /\ out.val.Q_subcool = Int2R(0)
         /\ out.val.Q_total = RAdd(out.val.Q_sensible, out.val.Q_latent)
         /\ out.err = <<>>
         /\ DutiesReported = AllDuties
         /\ Len(out.warn) >= 1
    ELSE /\ out.val.h4 = ProviderHT(ReqT3)
         /\ out.warn = <<>>

\* C4: in every variant, with all lookups succeeding: an inlet temperature
\* strictly above T_sat gives h1 = the enthalpy at (P, T1); otherwise h1 is
\* the saturated-vapour enthalpy, h1 = h2 and the desuperheat duty is 0; the
\* desuperheat duty is m_dot * (h1 - h2) / 1000 in both cases.
C4_InletBranch ==
  (HeatLoadRan /\ AllLookupsSucceeded) =>
    /\ RLt(ReqTsat, ReqT1) => out.val.h1 = ProviderHT(ReqT1)
    /\ RLe(ReqT1, ReqTsat) =>
         /\ out.val.h1 = ProviderHQ(Q1)
         /\ out.val.h1 = out.val.h2
         /\ out.val.Q_sensible = Int2R(0)
    /\ RMul(out.val.Q_sensible, Int2R(1000))
         = RMul(req.m_dot, RSub(out.val.h1, out.val.h2))

C4_Witness ==
  /\ HeatLoadRan /\ AllLookupsSucceeded
  /\ ReqT1 = ReqTsat
  /\ out.val.h1 = out.val.h2
  /\ out.val.Q_sensible = Int2R(0)
  /\ out.val.Q_latent # Int2R(0)

\* C5: no air-side computation aborts on a zero denominator.
C5_NoDivisionFault ==
  AirSideRan => out.fault # "ZeroDivisionError"

\* the request divides by nothing that is zero
NoZeroDenominator ==
  /\ ~RIsZero(req.fpi)
  /\ ~RIsZero(req.tube_pitch_mm)
  /\ ~RIsZero(req.face_width_m)
  /\ ~RIsZero(req.face_height_m)

\* C6: calculate_air_side_results takes density and viscosity from the
\* fallback table, and still returns a complete result, when the provider
\* is not loaded, when it raises, and when its viscosity is <= 0 or NaN.
C6_FallbackInAllThreeCases ==
  (/\ Done("calculate_air_side_results")
   /\ NoZeroDenominator
   /\ \/ ~req.coolprop_available
      \/ req.air_mode \in {"raises", "mu_zero", "mu_negative", "mu_nan"})
    => /\ out.fault = "none"
       /\ out.res.rho = air_properties_lookup(req.air_temp_C).rho
       /\ out.res.mu = air_properties_lookup(req.air_temp_C).mu

\* the clamp of C7, stated without ClampT
Clamped(T) ==
  IF T[1] < 0 THEN Int2R(0)
  ELSE IF T[1] > 60 * T[2] THEN Int2R(60)
  ELSE T

\* y lies on the line through rows i and i+1 of the table, at temperature c
OnSegment(table, i, c, y) ==
  RMul(RSub(y, table[i]), RSub(T_table[i + 1], T_table[i]))
    = RMul(RSub(c, T_table[i]), RSub(table[i + 1], table[i]))

\* C7: air_properties_lookup clamps T to [0, 60] and returns, from inside
\* the loop, the linear interpolation between the two rows that bracket the
\* clamped T: a breakpoint gives its row, T < 0 the 0 C row, T > 60 the 60 C
\* row, 25 C the midpoint of the 20 C and 30 C rows; the values stay within
\* the table's range.
C7_LookupInterpolates ==
  Done("air_properties_lookup") =>
    LET c == Clamped(req.T_C)
    IN  /\ out.ret = "loop"
        /\ \E i \in 1..6 :
             /\ RLe(T_table[i], c) /\ RLe(c, T_table[i + 1])
             /\ OnSegment(rho_table, i, c, out.rho)
             /\ OnSegment(mu_table, i, c, out.mu)
        /\ \A i \in 1..7 :
             c = T_table[i] => (out.rho = rho_table[i] /\ out.mu = mu_table[i])
        /\ req.T_C[1] < 0 => (out.rho = rho_table[1] /\ out.mu = mu_table[1])
        /\ RLt(Int2R(60), req.T_C) => (out.rho = rho_table[7] /\ out.mu = mu_table[7])
        /\ req.T_C = Int2R(25) =>
             /\ out.rho = RDiv(RAdd(rho_table[3], rho_table[4]), Int2R(2))
             /\ out.mu = RDiv(RAdd(mu_table[3], mu_table[4]), Int2R(2))
        /\ RLe(rho_table[7], out.rho) /\ RLe(out.rho, rho_table[1])
        /\ RLe(mu_table[1], out.mu) /\ RLe(out.mu, mu_table[7])

C7_Witness ==
  /\ Done("air_properties_lookup")
  /\ req.T_C = Int2R(25)
  /\ out.rho = R(2369, 2000)
  /\ out.mu = R(184, 10000000)

\* C8: the row-power-law coefficient A is the table value of a key no other
\* key is strictly nearer to the requested fin density than, always one of
\* the four table values, the key's own value at a key (12 gives 9.63), and
\* the total pressure drop is the per-row drop times the number of rows.
C8_NearestKey ==
  (Done("RichAirSide") /\ out.fault = "none") =>
    /\ \E i \in 1..4 :
         /\ out.res.closest_fpi = a_lookup_keys[i]
         /\ out.res.a_value = a_lookup_vals[i]
         /\ \A j \in 1..4 :
              ~RLt(RAbs(RSub(a_lookup_keys[j], req.fpi)),
                   RAbs(RSub(a_lookup_keys[i], req.fpi)))
    /\ out.res.a_value \in {R(715, 100), R(85, 10), R(963, 100), Int2R(11)}
    /\ \A i \in 1..4 : req.fpi = a_lookup_keys[i] => out.res.a_value = a_lookup_vals[i]
    /\ req.fpi = Int2R(12) => out.res.a_value = R(963, 100)
    /\ out.res.dp_total = RMul(out.res.dp_per_row, Int2R(req.num_rows))

C8_Witness ==
  /\ Done("RichAirSide") /\ out.fault = "none"
  /\ req.fpi = Int2R(20)
  /\ out.res.closest_fpi = R(27, 2)
  /\ out.res.a_value = Int2R(11)
  /\ RPos(out.res.dp_total)

\* all lengths > 0, fin density > 0, tube pitch > tube OD, rows >= 1
ValidGeometry ==
  /\ RPos(req.tube_od_mm) /\ RPos(req.tube_pitch_mm) /\ RPos(req.row_pitch_mm)
  /\ RPos(req.fin_thickness_mm) /\ RPos(req.face_width_m) /\ RPos(req.face_height_m)
  /\ RPos(req.fpi)
  /\ RLt(req.tube_od_mm, req.tube_pitch_mm)
  /\ req.num_rows >= 1

\* C9: for every valid geometry the result has tubes per row = floor(face
\* width / tube pitch), total tubes = tubes per row * rows and total tubes
\* >= 1; a geometry with zero tubes is not returned as a result.
C9_AtLeastOneTube ==
  (AirSideRan /\ ValidGeometry /\ out.fault = "none") =>
    /\ out.res.tubes_per_row
         = Int2R(RFloor(RDiv(req.face_width_m, RDiv(req.tube_pitch_mm, Int2R(1000)))))
    /\ out.res.total_tubes = RMul(out.res.tubes_per_row, Int2R(req.num_rows))
    /\ out.res.total_tubes[1] >= 1

\* C10: a net fin area that is returned is never negative.
C10_NetFinAreaNonNegative ==
  (AirSideRan /\ out.fault = "none") => out.res.net_fin_area[1] >= 0

====
